---- MODULE Spec2Model ----
(***************************************************************************)
(* Explore pane state: the pane reducer, the initializeExplore and         *)
(* refreshExplore thunks and urlDiff (explore/state/explorePane), and the  *)
(* lifecycle of the Explore Wrapper component.                             *)
(***************************************************************************)
EXTENDS Integers, Sequences, FiniteSets, TLC

VARIABLES
  explore,       \* getState().explore : ExploreId -> ExploreItemState
  pending,       \* initializeExplore invocations suspended at their await
  mounted,       \* the Wrapper component is mounted
  lastSavedUrl,  \* module-level lastSavedUrl of explore/state/main
  configured,    \* names returned by getExploreDatasources()
  last           \* record of the thunk invocation / dispatch that ran last

vars == <<explore, pending, mounted, lastSavedUrl, configured, last>>

----------------------------------------------------------------------------
(* Bounds *)

\* longest query list carried by a URL or an initializeExplore call
MaxQueries == 1
\* most initializeExplore invocations suspended at the same time
MaxPending == 1

----------------------------------------------------------------------------
(* Values *)

\* JavaScript undefined / null
Undefined == "undefined"
\* originPanelId undefined / null
NoPanelId == 0

ExploreIds == {"left", "right"}
\* the panes whose Explore component Wrapper.render mounts while split is false
Hosted == {"left"}
DataSourceNames == {"A", "B"}
RawRanges == {"now-1h", "now-6h"}
DEFAULT_RANGE == "now-1h"
PanelIds == {2}
Widths == {800}
EventBridge == "eventBridge"
TimeZone == "utc"

\* letters getNextRefIdChar walks through
RefIdLetters == <<"A", "B", "C", "D", "E">>

\* queries as they appear in a URL: refId "" is a missing refId, no key
UrlQueryValues ==
  { [refId |-> "",  expr |-> "up", key |-> ""],
    [refId |-> "A", expr |-> "up", key |-> ""] }

RECURSIVE SeqsUpTo(_, _)
SeqsUpTo(S, n) ==
  IF n = 0 THEN {<<>>}
  ELSE LET shorter == SeqsUpTo(S, n - 1)
       IN  shorter \cup {Append(s, e) : s \in {t \in shorter : Len(t) = n - 1}, e \in S}

UrlQueryLists == SeqsUpTo(UrlQueryValues, MaxQueries)

\* the URL query strings the pane host passes on: every data source, query
\* list and range without an origin panel, the links a dashboard panel
\* produces (an origin panel, no queries, no range), and one string that
\* parseUrlState cannot parse (valid = FALSE)
UrlQueries ==
  { [valid |-> TRUE, datasource |-> d, queries |-> q, range |-> r, originPanelId |-> NoPanelId] :
      d \in DataSourceNames, q \in UrlQueryLists,
      r \in (RawRanges \ {DEFAULT_RANGE}) \cup {Undefined} }
  \cup
  { [valid |-> TRUE, datasource |-> d, queries |-> <<>>, range |-> Undefined, originPanelId |-> o] :
      d \in DataSourceNames, o \in PanelIds }
  \cup
  { [valid |-> FALSE, datasource |-> Undefined, queries |-> <<>>, range |-> Undefined,
     originPanelId |-> NoPanelId] }

----------------------------------------------------------------------------
(* Helpers of app/core/utils/explore *)

\* generateKey(index)
generateKey(index) == "Q-" \o ToString(index)

\* getNextRefIdChar(queries): first letter no query of the list uses
getNextRefIdChar(queries) ==
  LET used == {queries[i].refId : i \in DOMAIN queries}
      free == {i \in DOMAIN RefIdLetters : RefIdLetters[i] \notin used}
  IN  IF free = {} THEN Undefined
      ELSE RefIdLetters[CHOOSE i \in free : \A j \in free : i <= j]

\* generateNewKeyAndAddRefIdIfMissing(target, queries, index); index is 0-based
generateNewKeyAndAddRefIdIfMissing(target, queries, index) ==
  [target EXCEPT !.refId = IF target.refId # "" THEN target.refId ELSE getNextRefIdChar(queries),
                 !.key = generateKey(index)]

\* the loop of refreshExplore that builds refreshQueries
RECURSIVE buildRefreshQueries(_, _)
buildRefreshQueries(queries, n) ==
  IF n = 0 THEN <<>>
  ELSE LET refreshQueries == buildRefreshQueries(queries, n - 1)
       IN  Append(refreshQueries,
                  generateNewKeyAndAddRefIdIfMissing(queries[n], refreshQueries, n - 1))

\* ensureQueries(queries): normalized queries, one empty query for an empty list
ensureQueries(queries) ==
  IF Len(queries) > 0 THEN buildRefreshQueries(queries, Len(queries))
  ELSE << [refId |-> getNextRefIdChar(<<>>), expr |-> "", key |-> generateKey(0)] >>

\* getQueryKeys(queries, datasourceInstance)
getQueryKeys(queries, datasourceInstance) ==
  [ i \in DOMAIN queries |->
      << IF datasourceInstance # Undefined THEN datasourceInstance ELSE queries[i].key, i - 1 >> ]

\* parseUrlState(urlQuery)
parseUrlState(urlQuery) ==
  IF urlQuery.valid
    THEN [datasource |-> urlQuery.datasource,
          queries |-> urlQuery.queries,
          range |-> IF urlQuery.range = Undefined THEN DEFAULT_RANGE ELSE urlQuery.range,
          originPanelId |-> urlQuery.originPanelId]
    ELSE [datasource |-> Undefined, queries |-> <<>>, range |-> DEFAULT_RANGE,
          originPanelId |-> NoPanelId]

\* getTimeRangeFromUrl(range, timeZone)
getTimeRangeFromUrl(rawRange, timeZone) ==
  [raw |-> rawRange, zone |-> timeZone]

\* clearQueryKeys(query)
clearQueryKeys(query) == [query EXCEPT !.key = ""]

\* getUrlStateFromPaneState(pane)
getUrlStateFromPaneState(pane) ==
  [datasource |-> pane.datasourceInstance,
   queries |-> [i \in DOMAIN pane.queries |-> clearQueryKeys(pane.queries[i])],
   range |-> pane.range.raw]

----------------------------------------------------------------------------
(* urlDiff *)

\* an absent (undefined) ExploreUrlState
NoUrlState == [absent |-> TRUE]

IsAbsent(urlState) == "absent" \in DOMAIN urlState

\* urlState?.datasource
OptDatasource(urlState) == IF IsAbsent(urlState) THEN Undefined ELSE urlState.datasource

\* urlState?.queries, as <<>> when undefined and <<queries>> otherwise
OptQueries(urlState) == IF IsAbsent(urlState) THEN <<>> ELSE <<urlState.queries>>

\* urlState?.range, with no default put in for an absent one
RangeNoDefault(urlState) ==
  IF IsAbsent(urlState) THEN Undefined ELSE urlState.range

\* urlState?.range || DEFAULT_RANGE
RangeOrDefault(urlState) ==
  IF IsAbsent(urlState) THEN DEFAULT_RANGE
  ELSE IF urlState.range = Undefined THEN DEFAULT_RANGE
  ELSE urlState.range

\* _.isEqual
isEqual(a, b) == a = b

urlDiff(oldUrlState, currentUrlState) ==
  [datasource |-> ~ isEqual(OptDatasource(currentUrlState), OptDatasource(oldUrlState)),
   queries    |-> ~ isEqual(OptQueries(currentUrlState), OptQueries(oldUrlState)),
   range      |-> ~ isEqual(RangeOrDefault(currentUrlState), RangeOrDefault(oldUrlState))]

----------------------------------------------------------------------------
(* Pane state and reducers *)

\* makeExplorePaneState(): the state of a pane before its initialization
makeExplorePaneState ==
  [initialized |-> FALSE,
   containerWidth |-> 0,
   eventBridge |-> Undefined,
   queries |-> <<>>,
   queryKeys |-> <<>>,
   range |-> [raw |-> DEFAULT_RANGE, zone |-> Undefined],
   datasourceInstance |-> Undefined,
   datasourceMissing |-> TRUE,
   history |-> <<>>,
   dedupStrategy |-> "none",
   hiddenLogLevels |-> <<>>,
   logsHighlighterExpressions |-> <<>>,
   queryResponse |-> "NotStarted",
   originPanelId |-> NoPanelId]

\* createEmptyQueryResponse()
createEmptyQueryResponse == "NotStarted"

\* queryReducer: owns queries / queryKeys / queryResponse
queryReducer(state, action) ==
  IF action.type = "explore/setQueries"
    THEN [state EXCEPT !.queries = action.payload.queries,
                       !.queryKeys = getQueryKeys(action.payload.queries, state.datasourceInstance)]
  ELSE IF action.type = "explore/queryStoreSubscription"
    THEN [state EXCEPT !.queryResponse = "Loading"]
  ELSE state

\* datasourceReducer: recognizes none of the actions dispatched here
datasourceReducer(state, action) == state

\* timeReducer: owns range
timeReducer(state, action) ==
  IF action.type = "explore/changeRange"
    THEN [state EXCEPT !.range = action.payload.range]
  ELSE state

\* historyReducer: recognizes none of the actions dispatched here
historyReducer(state, action) == state

\* !datasourceInstance
Not(datasourceInstance) == datasourceInstance = Undefined

\* an Initialize that leaves datasourceMissing as it was
reduceInitializeKeepsMissing(state, payload) ==
  [state EXCEPT
     !.containerWidth = payload.containerWidth,
     !.eventBridge = payload.eventBridge,
     !.range = payload.range,
     !.queries = payload.queries,
     !.initialized = TRUE,
     !.queryKeys = getQueryKeys(payload.queries, state.datasourceInstance),
     !.originPanelId = payload.originPanelId,
     !.datasourceInstance = payload.datasourceInstance,
     !.history = payload.history,
     !.queryResponse = createEmptyQueryResponse,
     !.logsHighlighterExpressions = <<>>]

\* an Initialize that keys the queries the pane had before the action
reduceInitializeKeysOfOldQueries(state, payload) ==
  [state EXCEPT
     !.containerWidth = payload.containerWidth,
     !.eventBridge = payload.eventBridge,
     !.range = payload.range,
     !.queries = payload.queries,
     !.initialized = TRUE,
     !.queryKeys = getQueryKeys(state.queries, state.datasourceInstance),
     !.originPanelId = payload.originPanelId,
     !.datasourceInstance = payload.datasourceInstance,
     !.history = payload.history,
     !.datasourceMissing = Not(payload.datasourceInstance),
     !.queryResponse = createEmptyQueryResponse,
     !.logsHighlighterExpressions = <<>>]

\* an Initialize that marks the pane initialized only when it brings an instance
reduceInitializeWhenResolved(state, payload) ==
  [state EXCEPT
     !.containerWidth = payload.containerWidth,
     !.eventBridge = payload.eventBridge,
     !.range = payload.range,
     !.queries = payload.queries,
     !.initialized = payload.datasourceInstance # Undefined,
     !.queryKeys = getQueryKeys(payload.queries, state.datasourceInstance),
     !.originPanelId = payload.originPanelId,
     !.datasourceInstance = payload.datasourceInstance,
     !.history = payload.history,
     !.datasourceMissing = Not(payload.datasourceInstance),
     !.queryResponse = createEmptyQueryResponse,
     !.logsHighlighterExpressions = <<>>]

\* an Initialize that also puts the dedup strategy back to none
reduceInitializeResetsDedup(state, payload) ==
  [state EXCEPT
     !.containerWidth = payload.containerWidth,
     !.eventBridge = payload.eventBridge,
     !.range = payload.range,
     !.queries = payload.queries,
     !.initialized = TRUE,
     !.queryKeys = getQueryKeys(payload.queries, state.datasourceInstance),
     !.originPanelId = payload.originPanelId,
     !.datasourceInstance = payload.datasourceInstance,
     !.history = payload.history,
     !.datasourceMissing = Not(payload.datasourceInstance),
     !.queryResponse = createEmptyQueryResponse,
     !.logsHighlighterExpressions = <<>>,
     !.dedupStrategy = "none"]

\* the initializeExploreAction branch of paneReducer
reduceInitialize(state, payload) ==
  [state EXCEPT
     !.containerWidth = payload.containerWidth,
     !.eventBridge = payload.eventBridge,
     !.range = payload.range,
     !.queries = payload.queries,
     !.initialized = TRUE,
     !.queryKeys = getQueryKeys(payload.queries, state.datasourceInstance),
     !.originPanelId = payload.originPanelId,
     !.datasourceInstance = payload.datasourceInstance,
     !.history = payload.history,
     !.datasourceMissing = Not(payload.datasourceInstance),
     !.queryResponse = createEmptyQueryResponse,
     !.logsHighlighterExpressions = <<>>]

paneReducer(state0, action) ==
  LET state1 == queryReducer(state0, action)
      state2 == datasourceReducer(state1, action)
      state3 == timeReducer(state2, action)
      state  == historyReducer(state3, action)
  IN  IF action.type = "explore/changeSize"
        THEN [state EXCEPT !.containerWidth = action.payload.width]
      ELSE IF action.type = "explore/highlightLogsExpression"
        THEN [state EXCEPT !.logsHighlighterExpressions = <<action.payload.expressions>>]
      ELSE IF action.type = "explore/changeDedupStrategyAction"
        THEN [state EXCEPT !.dedupStrategy = action.payload.dedupStrategy]
      ELSE IF action.type = "explore/initializeExplore"
        THEN reduceInitialize(state, action.payload)
      ELSE IF action.type = "explore/toggleLogLevel"
        THEN [state EXCEPT !.hiddenLogLevels = action.payload.hiddenLogLevels]
      ELSE state

\* a root reducer that hands an action to every pane
exploreReducerBroadcast(store, action) ==
  IF action.type = "explore/resetExplore"
    THEN [p \in ExploreIds |-> makeExplorePaneState]
  ELSE IF "exploreId" \in DOMAIN action.payload
    THEN [p \in ExploreIds |-> paneReducer(store[p], action)]
  ELSE store

\* the root explore reducer: an action reaches the pane its payload names;
\* resetExploreAction puts every pane back to makeExplorePaneState()
exploreReducer(store, action) ==
  IF action.type = "explore/resetExplore"
    THEN [p \in ExploreIds |-> makeExplorePaneState]
  ELSE IF "exploreId" \in DOMAIN action.payload
    THEN [store EXCEPT ![action.payload.exploreId] = paneReducer(@, action)]
  ELSE store

----------------------------------------------------------------------------
(* Thunks.  A thunk runs against a context [store, log]: the store it     *)
(* dispatches into and the dispatches it has issued, oldest first.  Each  *)
(* log entry keeps what the target pane looked like when it was issued.   *)

Seen(store, exploreId) ==
  [initialized |-> store[exploreId].initialized,
   queryResponse |-> store[exploreId].queryResponse]

Entry(ctx, exploreId, type, arg) ==
  [type |-> type, arg |-> arg, seen |-> Seen(ctx.store, exploreId)]

\* dispatch(action) of a plain action
dispatch(ctx, exploreId, action) ==
  [store |-> exploreReducer(ctx.store, action),
   log |-> Append(ctx.log, Entry(ctx, exploreId, action.type, action.payload))]

\* dispatch(updateTime({exploreId, rawRange})): resolves the raw range given,
\* or the pane's own raw range, and stores the result
updateTime(ctx, exploreId, rawRange) ==
  LET raw == IF rawRange = Undefined THEN ctx.store[exploreId].range.raw ELSE rawRange
      action == [type |-> "explore/changeRange",
                 payload |-> [exploreId |-> exploreId,
                              range |-> getTimeRangeFromUrl(raw, TimeZone)]]
  IN  [store |-> exploreReducer(ctx.store, action),
       log |-> Append(ctx.log, Entry(ctx, exploreId, "updateTime", rawRange))]

\* dispatch(runQueries(exploreId)): starts a query run when the pane has a
\* data source
runQueries(ctx, exploreId) ==
  LET action == [type |-> "explore/queryStoreSubscription",
                 payload |-> [exploreId |-> exploreId]]
  IN  [store |-> IF ctx.store[exploreId].datasourceInstance = Undefined
                   THEN ctx.store
                   ELSE exploreReducer(ctx.store, action),
       log |-> Append(ctx.log, Entry(ctx, exploreId, "runQueries", exploreId))]

\* getRichHistory()
getRichHistory == <<"saved-query">>

\* loadAndInitDatasource(orgId, datasourceName), when it resolves
loadResult(datasourceName) ==
  LET instance == IF datasourceName \in configured THEN datasourceName ELSE Undefined
  IN  [instance |-> instance,
       history |-> IF instance = Undefined THEN <<>> ELSE <<instance>>]

\* initializeExplore that updates the time before it dispatches
\* initializeExploreAction and runs the queries whatever was resolved
initializeExploreDispatchesReordered(ctx, call, instance, history) ==
  LET exploreId == call.exploreId
      c1 == updateTime(ctx, exploreId, Undefined)
      c2 == dispatch(c1, exploreId,
                     [type |-> "explore/initializeExplore",
                      payload |-> [exploreId |-> exploreId,
                                   containerWidth |-> call.containerWidth,
                                   eventBridge |-> call.eventBridge,
                                   queries |-> call.queries,
                                   range |-> call.range,
                                   originPanelId |-> call.originPanelId,
                                   datasourceInstance |-> instance,
                                   history |-> history]])
      c3 == runQueries(c2, exploreId)
  IN  dispatch(c3, exploreId,
               [type |-> "explore/richHistoryUpdated",
                payload |-> [richHistory |-> getRichHistory]])

\* initializeExplore from the dispatch of initializeExploreAction to its end
initializeExploreDispatches(ctx, call, instance, history) ==
  LET exploreId == call.exploreId
      c1 == dispatch(ctx, exploreId,
                     [type |-> "explore/initializeExplore",
                      payload |-> [exploreId |-> exploreId,
                                   containerWidth |-> call.containerWidth,
                                   eventBridge |-> call.eventBridge,
                                   queries |-> call.queries,
                                   range |-> call.range,
                                   originPanelId |-> call.originPanelId,
                                   datasourceInstance |-> instance,
                                   history |-> history]])
      c2 == updateTime(c1, exploreId, Undefined)
      c3 == IF instance # Undefined THEN runQueries(c2, exploreId) ELSE c2
  IN  dispatch(c3, exploreId,
               [type |-> "explore/richHistoryUpdated",
                payload |-> [richHistory |-> getRichHistory]])

\* a resolution that is attempted whatever is configured
NeedsResolutionAlways == Cardinality(configured) >= 0

\* exploreDatasources.length >= 1
NeedsResolution == Cardinality(configured) >= 1

\* the arguments of one initializeExplore invocation
Call(exploreId, datasourceName, queries, range, containerWidth, eventBridge, originPanelId, caller) ==
  [exploreId |-> exploreId, datasourceName |-> datasourceName, queries |-> queries,
   range |-> range, containerWidth |-> containerWidth, eventBridge |-> eventBridge,
   originPanelId |-> originPanelId, caller |-> caller]

NoUpdate == [datasource |-> FALSE, queries |-> FALSE, range |-> FALSE]

\* what is kept of the invocation that ran last: log holds the dispatches
\* refreshExplore issued itself, initLog those of initializeExplore
Ran(op, exploreId, caller, initialized, update, log, initLog, outcome, instance) ==
  [op |-> op, exploreId |-> exploreId, caller |-> caller, initialized |-> initialized,
   update |-> update, log |-> log, initLog |-> initLog, outcome |-> outcome,
   instance |-> instance]

\* refreshDispatches with a query run of its own in each branch
refreshDispatchesRunPerBranch(ctx, exploreId, update, range, refreshQueries) ==
  LET c1 == IF update.range
              THEN runQueries(updateTime(ctx, exploreId, range.raw), exploreId)
              ELSE ctx
  IN  IF update.queries
        THEN runQueries(dispatch(c1, exploreId,
                                 [type |-> "explore/setQueries",
                                  payload |-> [exploreId |-> exploreId,
                                               queries |-> refreshQueries]]),
                        exploreId)
        ELSE c1

\* refreshDispatches with the queries correction skipped when the range differs
refreshDispatchesElseIf(ctx, exploreId, update, range, refreshQueries) ==
  LET c2 == IF update.range THEN updateTime(ctx, exploreId, range.raw)
            ELSE IF update.queries
              THEN dispatch(ctx, exploreId,
                            [type |-> "explore/setQueries",
                             payload |-> [exploreId |-> exploreId, queries |-> refreshQueries]])
            ELSE ctx
  IN  IF update.queries \/ update.range THEN runQueries(c2, exploreId) ELSE c2

\* the body of refreshExplore after urlDiff, when update.datasource is false
refreshDispatches(ctx, exploreId, update, range, refreshQueries) ==
  LET c1 == IF update.range THEN updateTime(ctx, exploreId, range.raw) ELSE ctx
      c2 == IF update.queries
              THEN dispatch(c1, exploreId,
                            [type |-> "explore/setQueries",
                             payload |-> [exploreId |-> exploreId, queries |-> refreshQueries]])
              ELSE c1
  IN  IF update.queries \/ update.range THEN runQueries(c2, exploreId) ELSE c2

----------------------------------------------------------------------------
(* Actions *)

Init ==
  /\ explore = [p \in ExploreIds |-> makeExplorePaneState]
  /\ pending = <<>>
  /\ mounted = FALSE
  /\ lastSavedUrl = [p \in ExploreIds |-> Undefined]
  /\ configured \in {{}, DataSourceNames}
  /\ last = Ran("none", Undefined, Undefined, FALSE, NoUpdate, <<>>, <<>>, "returned", Undefined)

\* Wrapper.componentDidMount
Mount ==
  /\ ~ mounted
  /\ mounted' = TRUE
  /\ lastSavedUrl' = [p \in ExploreIds |-> Undefined]
  /\ last' = Ran("mount", Undefined, Undefined, FALSE, NoUpdate, <<>>, <<>>, "returned", Undefined)
  /\ UNCHANGED <<explore, pending, configured>>

\* Wrapper.componentWillUnmount: dispatches resetExploreAction({})
Unmount ==
  /\ mounted
  /\ mounted' = FALSE
  /\ explore' = exploreReducer(explore, [type |-> "explore/resetExplore", payload |-> <<>>])
  /\ last' = Ran("unmount", Undefined, Undefined, FALSE, NoUpdate, <<>>, <<>>, "returned", Undefined)
  /\ UNCHANGED <<pending, lastSavedUrl, configured>>

\* initializeExplore up to its await (or to its end when nothing is awaited)
StartInitialize(store, call, initialized, update, callerLog) ==
  IF NeedsResolution
    THEN /\ Len(pending) < MaxPending
         /\ pending' = Append(pending, call)
         /\ explore' = store
         /\ last' = Ran(call.caller, call.exploreId, "host", initialized, update,
                        callerLog, <<>>, "pending", Undefined)
    ELSE LET c == initializeExploreDispatches([store |-> store, log |-> <<>>],
                                              call, Undefined, <<>>)
         IN  /\ pending' = pending
             /\ explore' = c.store
             /\ last' = Ran("initializeExplore", call.exploreId, call.caller, initialized,
                            update, callerLog, c.log, "fulfilled", Undefined)

\* the pane host calls initializeExplore for a pane that is not initialized,
\* with the state of the URL it was opened with
InitializeExplore(exploreId, urlQuery, containerWidth) ==
  /\ mounted
  /\ ~ explore[exploreId].initialized
  /\ LET urlState == parseUrlState(urlQuery)
         call == Call(exploreId, urlState.datasource, ensureQueries(urlState.queries),
                      getTimeRangeFromUrl(urlState.range, TimeZone), containerWidth,
                      EventBridge, urlState.originPanelId, "initializeExplore")
     IN  StartInitialize(explore, call, FALSE, NoUpdate, <<>>)
  /\ UNCHANGED <<mounted, lastSavedUrl, configured>>

\* loadAndInitDatasource resolves: the invocation runs to its end
ResolveDatasource(i) ==
  /\ i \in DOMAIN pending
  /\ LET call == pending[i]
         loaded == loadResult(call.datasourceName)
         c == initializeExploreDispatches([store |-> explore, log |-> <<>>],
                                          call, loaded.instance, loaded.history)
     IN  /\ explore' = c.store
         /\ last' = Ran("initializeExplore", call.exploreId, call.caller,
                        explore[call.exploreId].initialized,
                        NoUpdate, <<>>, c.log, "fulfilled", loaded.instance)
  /\ pending' = [j \in 1..(Len(pending) - 1) |-> IF j < i THEN pending[j] ELSE pending[j + 1]]
  /\ UNCHANGED <<mounted, lastSavedUrl, configured>>

\* a rejection that is swallowed: the invocation goes on without an instance
RejectDatasourceSwallowed(i) ==
  /\ i \in DOMAIN pending
  /\ LET call == pending[i]
         c == initializeExploreDispatches([store |-> explore, log |-> <<>>],
                                          call, Undefined, <<>>)
     IN  /\ explore' = c.store
         /\ last' = Ran("initializeExplore", call.exploreId, call.caller,
                        explore[call.exploreId].initialized,
                        NoUpdate, <<>>, c.log, "rejected", Undefined)
  /\ pending' = [j \in 1..(Len(pending) - 1) |-> IF j < i THEN pending[j] ELSE pending[j + 1]]
  /\ UNCHANGED <<mounted, lastSavedUrl, configured>>

\* loadAndInitDatasource rejects: the await throws and the invocation ends
RejectDatasource(i) ==
  /\ i \in DOMAIN pending
  /\ LET call == pending[i]
     IN  last' = Ran("initializeExplore", call.exploreId, call.caller,
                     explore[call.exploreId].initialized,
                     NoUpdate, <<>>, <<>>, "rejected", Undefined)
  /\ pending' = [j \in 1..(Len(pending) - 1) |-> IF j < i THEN pending[j] ELSE pending[j + 1]]
  /\ UNCHANGED <<explore, mounted, lastSavedUrl, configured>>

\* refreshExplore after its initialized check, without the return that ends the
\* data source branch
refreshExploreBodyNoReturn(store, exploreId, urlQuery) ==
  LET itemState == store[exploreId]
      urlState == parseUrlState(urlQuery)
      update == urlDiff(urlState, getUrlStateFromPaneState(itemState))
      refreshQueries == buildRefreshQueries(urlState.queries, Len(urlState.queries))
      range == getTimeRangeFromUrl(urlState.range, TimeZone)
      ctx == [store |-> store, log |-> <<>>]
      initialQueries == ensureQueries(urlState.queries)
      thunk == [exploreId |-> exploreId, datasourceName |-> urlState.datasource,
                queries |-> initialQueries, range |-> range,
                originPanelId |-> urlState.originPanelId]
      c0 == IF update.datasource
              THEN [store |-> store,
                    log |-> << Entry(ctx, exploreId, "initializeExplore", thunk) >>]
              ELSE ctx
      c == refreshDispatches(c0, exploreId, update, range, refreshQueries)
  IN  [store |-> c.store, log |-> c.log, update |-> update,
       call |-> IF update.datasource
                  THEN << Call(exploreId, urlState.datasource, initialQueries, range,
                               itemState.containerWidth, itemState.eventBridge,
                               urlState.originPanelId, "refreshExplore") >>
                  ELSE <<>>]

\* refreshExplore after its initialized check: the store and log it leaves, the
\* diff it computed, and the initializeExplore invocation it dispatched (call)
refreshExploreBody(store, exploreId, urlQuery) ==
  LET itemState == store[exploreId]
      urlState == parseUrlState(urlQuery)
      update == urlDiff(urlState, getUrlStateFromPaneState(itemState))
      refreshQueries == buildRefreshQueries(urlState.queries, Len(urlState.queries))
      range == getTimeRangeFromUrl(urlState.range, TimeZone)
      ctx == [store |-> store, log |-> <<>>]
  IN  IF update.datasource
        THEN LET initialQueries == ensureQueries(urlState.queries)
                 thunk == [exploreId |-> exploreId, datasourceName |-> urlState.datasource,
                           queries |-> initialQueries, range |-> range,
                           originPanelId |-> urlState.originPanelId]
             IN  [store |-> store,
                  log |-> << Entry(ctx, exploreId, "initializeExplore", thunk) >>,
                  update |-> update,
                  call |-> << Call(exploreId, urlState.datasource, initialQueries, range,
                                   itemState.containerWidth, itemState.eventBridge,
                                   urlState.originPanelId, "refreshExplore") >>]
      ELSE LET c == refreshDispatches(ctx, exploreId, update, range, refreshQueries)
           IN  [store |-> c.store, log |-> c.log, update |-> update, call |-> <<>>]

\* refreshExplore without its initialized check
refreshExploreUnguarded(store, exploreId, urlQuery) ==
  refreshExploreBody(store, exploreId, urlQuery)

\* refreshExplore(exploreId, urlQuery) up to the end of its own dispatches
refreshExplore(store, exploreId, urlQuery) ==
  IF ~ store[exploreId].initialized
    THEN [store |-> store, log |-> <<>>, update |-> NoUpdate, call |-> <<>>]
    ELSE refreshExploreBody(store, exploreId, urlQuery)

\* the pane host calls refreshExplore when the URL changed
RefreshExplore(exploreId, urlQuery) ==
  /\ mounted
  /\ LET r == refreshExplore(explore, exploreId, urlQuery)
         initialized == explore[exploreId].initialized
     IN  IF r.call # <<>>
           THEN StartInitialize(r.store, r.call[1], initialized, r.update, r.log)
           ELSE /\ explore' = r.store
                /\ pending' = pending
                /\ last' = Ran("refreshExplore", exploreId, "host", initialized, r.update,
                               r.log, <<>>, "returned", Undefined)
  /\ UNCHANGED <<mounted, lastSavedUrl, configured>>

----------------------------------------------------------------------------
(* Plain actions, dispatched by the rendering layer *)

DedupStrategies == {"none", "exact"}
Expressions == {<<"error">>}
LogLevelLists == {<<"debug">>}
ResizedWidths == {1200}
Heights == {600}

\* the payloads of initializeExploreAction
InitializePayloads(exploreId) ==
  { [exploreId |-> exploreId, containerWidth |-> w, eventBridge |-> EventBridge,
     queries |-> ensureQueries(q), range |-> getTimeRangeFromUrl(DEFAULT_RANGE, TimeZone),
     originPanelId |-> NoPanelId, datasourceInstance |-> d,
     history |-> IF d = Undefined THEN <<>> ELSE <<d>>] :
      w \in Widths, q \in UrlQueryLists, d \in DataSourceNames \cup {Undefined} }

\* store.dispatch(action) of a plain action that names its pane
Dispatch(action) ==
  /\ explore' = exploreReducer(explore, action)
  /\ last' = Ran(action.type, action.payload.exploreId, "host",
                 explore[action.payload.exploreId].initialized, NoUpdate,
                 << Entry([store |-> explore], action.payload.exploreId,
                          action.type, action.payload) >>,
                 <<>>, "returned", Undefined)
  /\ UNCHANGED <<pending, mounted, lastSavedUrl, configured>>

\* changeSize(exploreId, {height, width})
ChangeSize(exploreId, width, height) ==
  Dispatch([type |-> "explore/changeSize",
            payload |-> [exploreId |-> exploreId, height |-> height, width |-> width]])

\* changeDedupStrategy(exploreId, dedupStrategy)
ChangeDedupStrategy(exploreId, dedupStrategy) ==
  Dispatch([type |-> "explore/changeDedupStrategyAction",
            payload |-> [exploreId |-> exploreId, dedupStrategy |-> dedupStrategy]])

\* highlightLogsExpressionAction({exploreId, expressions})
HighlightLogsExpression(exploreId, expressions) ==
  Dispatch([type |-> "explore/highlightLogsExpression",
            payload |-> [exploreId |-> exploreId, expressions |-> expressions]])

\* toggleLogLevelAction({exploreId, hiddenLogLevels})
ToggleLogLevel(exploreId, hiddenLogLevels) ==
  Dispatch([type |-> "explore/toggleLogLevel",
            payload |-> [exploreId |-> exploreId, hiddenLogLevels |-> hiddenLogLevels]])

\* initializeExploreAction(payload)
Initialize(payload) ==
  Dispatch([type |-> "explore/initializeExplore", payload |-> payload])

\* the actions whose payload names a pane and that paneReducer handles itself
PaneActions(exploreId) ==
  { [type |-> "explore/changeSize",
     payload |-> [exploreId |-> exploreId, height |-> h, width |-> w]] :
       w \in ResizedWidths, h \in Heights }
  \cup
  { [type |-> "explore/changeDedupStrategyAction",
     payload |-> [exploreId |-> exploreId, dedupStrategy |-> d]] : d \in DedupStrategies }
  \cup
  { [type |-> "explore/highlightLogsExpression",
     payload |-> [exploreId |-> exploreId, expressions |-> e]] : e \in Expressions }
  \cup
  { [type |-> "explore/toggleLogLevel",
     payload |-> [exploreId |-> exploreId, hiddenLogLevels |-> l]] : l \in LogLevelLists }
  \cup
  { [type |-> "explore/initializeExplore", payload |-> payload] :
       payload \in InitializePayloads(exploreId) }

\* the Wrapper mounted, nothing dispatched yet
InitPane ==
  /\ explore = [p \in ExploreIds |-> makeExplorePaneState]
  /\ pending = <<>>
  /\ mounted = TRUE
  /\ lastSavedUrl = [p \in ExploreIds |-> Undefined]
  /\ configured = DataSourceNames
  /\ last = Ran("none", Undefined, Undefined, FALSE, NoUpdate, <<>>, <<>>, "returned", Undefined)

NextPane ==
  \/ \E p \in Hosted, w \in ResizedWidths, h \in Heights : ChangeSize(p, w, h)
  \/ \E p \in Hosted, d \in DedupStrategies : ChangeDedupStrategy(p, d)
  \/ \E p \in Hosted, e \in Expressions : HighlightLogsExpression(p, e)
  \/ \E p \in Hosted, l \in LogLevelLists : ToggleLogLevel(p, l)
  \/ \E p \in Hosted : \E payload \in InitializePayloads(p) : Initialize(payload)

SpecPane == InitPane /\ [][NextPane]_vars

\* the URL states urlDiff is applied to: none at all, or one whose data
\* source and range may be absent
UrlStates ==
  {NoUrlState} \cup
  [datasource : DataSourceNames \cup {Undefined},
   queries : UrlQueryLists,
   range : RawRanges \cup {Undefined}]

\* a call of urlDiff(oldUrlState, currentUrlState)
UrlDiff(oldUrlState, currentUrlState) ==
  /\ last' = [op |-> "urlDiff", oldUrlState |-> oldUrlState,
              currentUrlState |-> currentUrlState,
              update |-> urlDiff(oldUrlState, currentUrlState)]
  /\ UNCHANGED <<explore, pending, mounted, lastSavedUrl, configured>>

NextDiff == \E old \in UrlStates, current \in UrlStates : UrlDiff(old, current)

SpecDiff == InitPane /\ [][NextDiff]_vars

\* the Initialize payloads of the split view: one query list, an instance or none
SplitInitializePayloads(exploreId) ==
  { payload \in InitializePayloads(exploreId) :
      /\ payload.queries = ensureQueries(<<>>)
      /\ payload.datasourceInstance \in {"A", Undefined} }

\* the pane actions dispatched while both panes are shown
SplitActions(exploreId) ==
  { a \in PaneActions(exploreId) :
      a.type = "explore/initializeExplore"
        => a.payload \in SplitInitializePayloads(exploreId) }

\* the split view: plain actions dispatched to either pane
NextSplit == \E p \in ExploreIds : \E a \in SplitActions(p) : Dispatch(a)

SpecSplit == InitPane /\ [][NextSplit]_vars

\* how many initializeExplore invocations may be suspended at once when
\* invocations for one pane overlap
MaxOverlap == 2

\* the URLs the overlapping invocations are started with
OverlapUrlQueries ==
  { u \in UrlQueries : u.valid /\ u.range = Undefined /\ u.originPanelId = NoPanelId }

\* the Wrapper mounted with data sources configured, no invocation started yet;
\* newest keeps the arguments of the initializeExplore invocation started last
InitOverlap ==
  /\ explore = [p \in ExploreIds |-> makeExplorePaneState]
  /\ pending = <<>>
  /\ mounted = TRUE
  /\ lastSavedUrl = [p \in ExploreIds |-> Undefined]
  /\ configured = DataSourceNames
  /\ last = Ran("none", Undefined, Undefined, FALSE, NoUpdate, <<>>, <<>>, "returned",
                Undefined) @@ [newest |-> <<>>]

\* initializeExplore called for a pane that is not initialized, up to its
\* await, while earlier invocations may still be suspended
InitializeOverlapping(exploreId, urlQuery, containerWidth) ==
  /\ mounted
  /\ NeedsResolution
  /\ ~ explore[exploreId].initialized
  /\ Len(pending) < MaxOverlap
  /\ LET urlState == parseUrlState(urlQuery)
         call == Call(exploreId, urlState.datasource, ensureQueries(urlState.queries),
                      getTimeRangeFromUrl(urlState.range, TimeZone), containerWidth,
                      EventBridge, urlState.originPanelId, "initializeExplore")
     IN  /\ pending' = Append(pending, call)
         /\ last' = Ran("initializeExplore", exploreId, "host", FALSE, NoUpdate, <<>>, <<>>,
                        "pending", Undefined) @@ [newest |-> <<call>>]
  /\ UNCHANGED <<explore, mounted, lastSavedUrl, configured>>

\* refreshExplore called while earlier invocations may still be suspended
RefreshOverlapping(exploreId, urlQuery) ==
  /\ mounted
  /\ NeedsResolution
  /\ LET r == refreshExplore(explore, exploreId, urlQuery)
         initialized == explore[exploreId].initialized
     IN  /\ explore' = r.store
         /\ IF r.call # <<>>
              THEN /\ Len(pending) < MaxOverlap
                   /\ pending' = Append(pending, r.call[1])
                   /\ last' = Ran("refreshExplore", exploreId, "host", initialized, r.update,
                                  r.log, <<>>, "pending", Undefined) @@ [newest |-> r.call]
              ELSE /\ pending' = pending
                   /\ last' = Ran("refreshExplore", exploreId, "host", initialized, r.update,
                                  r.log, <<>>, "returned", Undefined)
                                @@ [newest |-> last.newest]
  /\ UNCHANGED <<mounted, lastSavedUrl, configured>>

\* loadAndInitDatasource resolves for one of the suspended invocations, in
\* whatever order: the invocation runs to its end
ResolveOverlapping(i) ==
  /\ i \in DOMAIN pending
  /\ LET call == pending[i]
         loaded == loadResult(call.datasourceName)
         c == initializeExploreDispatches([store |-> explore, log |-> <<>>],
                                          call, loaded.instance, loaded.history)
     IN  /\ explore' = c.store
         /\ last' = Ran("initializeExplore", call.exploreId, call.caller,
                        explore[call.exploreId].initialized,
                        NoUpdate, <<>>, c.log, "fulfilled", loaded.instance)
                      @@ [newest |-> last.newest]
  /\ pending' = [j \in 1..(Len(pending) - 1) |-> IF j < i THEN pending[j] ELSE pending[j + 1]]
  /\ UNCHANGED <<mounted, lastSavedUrl, configured>>

NextOverlap ==
  \/ \E p \in Hosted, u \in OverlapUrlQueries, w \in Widths : InitializeOverlapping(p, u, w)
  \/ \E p \in Hosted, u \in OverlapUrlQueries : RefreshOverlapping(p, u)
  \/ \E i \in 1..MaxOverlap : ResolveOverlapping(i)

SpecOverlap == InitOverlap /\ [][NextOverlap]_vars

\* how many queries a URL query list handed to the loop of refreshExplore has
MaxRefreshQueries == 3

\* URL queries with a refId or none (""), two expressions
RefreshQueryValues ==
  { [refId |-> r, expr |-> e, key |-> ""] : r \in {"", "A", "B"}, e \in {"up", "rate"} }

RefreshQueryLists == SeqsUpTo(RefreshQueryValues, MaxRefreshQueries)

\* the loop of refreshExplore run on the queries of a URL state
BuildRefreshQueries(queries) ==
  /\ last' = [op |-> "refreshQueries", queries |-> queries,
              refreshQueries |-> buildRefreshQueries(queries, Len(queries))]
  /\ UNCHANGED <<explore, pending, mounted, lastSavedUrl, configured>>

NextRefresh == \E queries \in RefreshQueryLists : BuildRefreshQueries(queries)

SpecRefresh == InitPane /\ [][NextRefresh]_vars

Next ==
  \/ Mount
  \/ Unmount
  \/ \E p \in Hosted, u \in UrlQueries, w \in Widths : InitializeExplore(p, u, w)
  \/ \E i \in 1..MaxPending : ResolveDatasource(i)
  \/ \E i \in 1..MaxPending : RejectDatasource(i)
  \/ \E p \in Hosted, u \in UrlQueries : RefreshExplore(p, u)

Spec == Init /\ [][Next]_vars

----------------------------------------------------------------------------
(* Properties of refreshExplore and initializeExplore *)

Count(log, type) == Cardinality({i \in DOMAIN log : log[i].type = type})

Types(log) == [i \in DOMAIN log |-> log[i].type]

\* a time-update that carries a raw range
RawTimeUpdates(log) ==
  {i \in DOMAIN log : log[i].type = "updateTime" /\ log[i].arg # Undefined}

\* refreshExplore ran last, on an initialized pane whose data source matched
RefreshedInPlace ==
  /\ last.op = "refreshExplore"
  /\ last.initialized
  /\ ~ last.update.datasource

\* an initializeExplore invocation ran to its end last
InitializeFulfilled ==
  /\ last.op = "initializeExplore"
  /\ last.outcome = "fulfilled"

\* C1: when refreshExplore finds the data source changed, all it dispatches
\* itself is one initializeExplore (no time-update with a raw range, no
\* query-list replacement, no query run), and the initializeExplore it started
\* dispatches, once its resolution completes, exactly one Initialize, no
\* time-update with a raw range, no query-list replacement, and exactly one
\* query run when a data source instance was resolved (none otherwise).
C1_DatasourceChangeReinitializes ==
  /\ last.update.datasource =>
       /\ last.initialized
       /\ Types(last.log) = << "initializeExplore" >>
  /\ (InitializeFulfilled /\ last.caller = "refreshExplore") =>
       /\ Count(last.initLog, "explore/initializeExplore") = 1
       /\ Count(last.initLog, "explore/setQueries") = 0
       /\ RawTimeUpdates(last.initLog) = {}
       /\ Count(last.initLog, "runQueries") = IF last.instance # Undefined THEN 1 ELSE 0

\* the initializeExplore that a refresh to another data source started has
\* resolved that data source and run its queries once
C1_Witness ==
  /\ InitializeFulfilled
  /\ last.caller = "refreshExplore"
  /\ last.instance # Undefined
  /\ Count(last.initLog, "runQueries") = 1

\* C2: with the data source unchanged, one refreshExplore call dispatches a
\* query run exactly once when the queries or the range differ (also when both
\* do) and never when neither does, and the query run is its last dispatch.
C2_OneQueryRunPerRefresh ==
  RefreshedInPlace =>
    /\ Count(last.log, "runQueries") =
         IF last.update.queries \/ last.update.range THEN 1 ELSE 0
    /\ \A i \in DOMAIN last.log : last.log[i].type = "runQueries" => i = Len(last.log)

\* queries and range both differed and one query run followed both corrections
C2_Witness ==
  /\ RefreshedInPlace
  /\ last.update.queries
  /\ last.update.range
  /\ Types(last.log) = << "updateTime", "explore/setQueries", "runQueries" >>

\* C3 as claimed: the two corrections exclude each other, the query-list
\* replacement being dispatched only when the range does not differ.
C3_CorrectionsExclusive ==
  RefreshedInPlace =>
    /\ last.update.range =>
         /\ RawTimeUpdates(last.log) # {}
         /\ Count(last.log, "explore/setQueries") = 0
    /\ Count(last.log, "explore/setQueries") > 0 =>
         /\ ~ last.update.range
         /\ last.update.queries

\* C3: with the data source unchanged, the two corrections are independent: a
\* time-update carrying the new raw range is dispatched exactly when the range
\* differs, a query-list replacement exactly when the queries differ, and when
\* both differ both are dispatched, the time-update first.
C3_CorrectionsIndependent ==
  RefreshedInPlace =>
    /\ Cardinality(RawTimeUpdates(last.log)) = IF last.update.range THEN 1 ELSE 0
    /\ Count(last.log, "updateTime") = Cardinality(RawTimeUpdates(last.log))
    /\ Count(last.log, "explore/setQueries") = IF last.update.queries THEN 1 ELSE 0
    /\ \A i, j \in DOMAIN last.log :
         (last.log[i].type = "updateTime" /\ last.log[j].type = "explore/setQueries") => i < j

C3_Witness ==
  /\ RefreshedInPlace
  /\ last.update.range
  /\ last.update.queries
  /\ Count(last.log, "updateTime") = 1
  /\ Count(last.log, "explore/setQueries") = 1

\* C4: refreshExplore on a pane that is not initialized dispatches nothing and
\* leaves the store and the suspended invocations as they were, whatever the
\* URL query string.
C4_RefreshBeforeInitializeIsNoOp ==
  [][ (last'.op = "refreshExplore" /\ ~ last'.initialized) =>
        /\ explore' = explore
        /\ pending' = pending
        /\ last'.log = <<>>
        /\ last'.initLog = <<>>
        /\ last'.outcome = "returned" ]_vars

\* refreshExplore has just returned from a pane that is not initialized
C4_Witness ==
  /\ last.op = "refreshExplore"
  /\ ~ last.initialized
  /\ last.outcome = "returned"
  /\ ~ explore[last.exploreId].initialized
  /\ mounted

\* C5: an initializeExplore invocation whose resolution completed (or was
\* skipped) dispatches Initialize, the time-update, the query run and the
\* rich-history update in that order, each reduced before the next is issued:
\* the time-update sees the pane initialized, the query run sees the emptied
\* query response, the rich-history update sees the query run started; the
\* query run is there exactly when an instance was resolved, the other three
\* exactly once.
C5_InitializeDispatchOrder ==
  InitializeFulfilled =>
    LET log == last.initLog
        n == Len(log)
    IN  /\ Types(log) =
             IF last.instance # Undefined
               THEN << "explore/initializeExplore", "updateTime", "runQueries",
                       "explore/richHistoryUpdated" >>
               ELSE << "explore/initializeExplore", "updateTime",
                       "explore/richHistoryUpdated" >>
        /\ log[1].arg.datasourceInstance = last.instance
        /\ log[2].seen.initialized
        /\ log[2].seen.queryResponse = "NotStarted"
        /\ log[2].arg = Undefined
        /\ last.instance # Undefined =>
             /\ log[3].seen = [initialized |-> TRUE, queryResponse |-> "NotStarted"]
             /\ log[n].seen = [initialized |-> TRUE, queryResponse |-> "Loading"]
        /\ last.instance = Undefined =>
             log[n].seen = [initialized |-> TRUE, queryResponse |-> "NotStarted"]

\* an invocation that resolved an instance re-initialized a pane whose earlier
\* query run was still shown
C5_Witness ==
  /\ InitializeFulfilled
  /\ last.instance # Undefined
  /\ Len(last.initLog) = 4
  /\ last.initLog[1].seen = [initialized |-> TRUE, queryResponse |-> "Loading"]

\* C6: with no data source configured initializeExplore never awaits the
\* resolution and never fails; it dispatches Initialize without an instance
\* and with an empty history, dispatches no query run, and leaves the pane
\* initialized with datasourceInstance absent and datasourceMissing true.
C6_NoDatasourceConfigured ==
  configured = {} =>
    /\ pending = <<>>
    /\ last.outcome \notin {"pending", "rejected"}
    /\ last.op = "initializeExplore" =>
         /\ last.outcome = "fulfilled"
         /\ last.initLog[1].type = "explore/initializeExplore"
         /\ last.initLog[1].arg.datasourceInstance = Undefined
         /\ last.initLog[1].arg.history = <<>>
         /\ Count(last.initLog, "runQueries") = 0
         /\ explore[last.exploreId].datasourceInstance = Undefined
         /\ explore[last.exploreId].datasourceMissing
         /\ explore[last.exploreId].initialized

\* initializeExplore was called for a data source by name and ended with no
\* data source configured
C6_Witness ==
  /\ configured = {}
  /\ InitializeFulfilled
  /\ last.initLog[1].arg.exploreId = last.exploreId
  /\ explore[last.exploreId].datasourceMissing
  /\ explore[last.exploreId].initialized

\* C7: an initializeExplore invocation whose resolution rejects ends rejected
\* without a dispatch: neither its start nor its rejection changes the store,
\* so initialized and datasourceMissing stay what they were.
C7_RejectionLeavesPaneAlone ==
  [][ /\ (last'.outcome = "pending" /\ pending' # pending) =>
           /\ explore' = explore
           /\ last'.initLog = <<>>
      /\ (last'.outcome = "rejected" /\ pending' # pending) =>
           /\ explore' = explore
           /\ last'.initLog = <<>>
           /\ last'.op = "initializeExplore"
           /\ Len(pending') = Len(pending) - 1 ]_vars

\* the first initializeExplore of a pane was rejected and the pane is still in
\* its state before initialization
C7_Witness ==
  /\ last.op = "initializeExplore"
  /\ last.outcome = "rejected"
  /\ last.initLog = <<>>
  /\ explore[last.exploreId] = makeExplorePaneState

\* C8 as claimed: every initializeExplore invocation that has ended, rejected
\* ones included, has dispatched the rich-history update.
C8_RichHistoryAlwaysUpdated ==
  (last.op = "initializeExplore" /\ last.outcome \in {"fulfilled", "rejected"}) =>
    Count(last.initLog, "explore/richHistoryUpdated") = 1

----------------------------------------------------------------------------
(* Properties of paneReducer *)

\* C9: in every pane state reached from the state a pane is created with by
\* Initialize, ChangeSize, ChangeDedupStrategy, HighlightLogsExpression and
\* ToggleLogLevel actions, datasourceMissing is true exactly when
\* datasourceInstance is absent.
C9_MissingIffNoInstance ==
  \A p \in ExploreIds :
    explore[p].datasourceMissing = (explore[p].datasourceInstance = Undefined)

\* an initialized pane without a data source (its query keys are not those of
\* a data source) has been initialized again, now with an instance
C9_Witness ==
  /\ last.op = "explore/initializeExplore"
  /\ last.initialized
  /\ explore[last.exploreId].datasourceInstance \in DataSourceNames
  /\ ~ explore[last.exploreId].datasourceMissing
  /\ explore[last.exploreId].queryKeys[1][1] \notin DataSourceNames

\* C10 as claimed: after initializeExplore has dispatched Initialize, queryKeys
\* are the keys of the action's queries under the action's datasourceInstance.
C10_QueryKeysFromNewInstance ==
  InitializeFulfilled =>
    explore[last.exploreId].queryKeys =
      getQueryKeys(last.initLog[1].arg.queries, last.initLog[1].arg.datasourceInstance)

\* C11: in every reachable pane state queryKeys has as many entries as
\* queries; an Initialize carrying N queries leaves the pane with N queryKeys
\* and initialized = true.
C11_OneKeyPerQuery ==
  /\ \A p \in ExploreIds : Len(explore[p].queryKeys) = Len(explore[p].queries)
  /\ InitializeFulfilled =>
       /\ Len(explore[last.exploreId].queryKeys) = Len(last.initLog[1].arg.queries)
       /\ explore[last.exploreId].initialized

\* refreshExplore has initialized a pane again, with one query
C11_Witness ==
  /\ InitializeFulfilled
  /\ last.caller = "refreshExplore"
  /\ Len(last.initLog[1].arg.queries) = 1
  /\ Len(explore[last.exploreId].queryKeys) = 1
  /\ explore[last.exploreId].initialized

\* C12: initialized never goes back to false short of the reset of the panes.
\* On every pane state reached, each pane action leaves initialized as it is,
\* except Initialize, which makes it true; no step of refreshExplore or
\* initializeExplore takes it from true to false, only the reset at unmount
\* does; and it goes from false to true only by the Initialize that an
\* initializeExplore for that pane dispatches.
C12_InitializedMonotone ==
  /\ [](\A p \in ExploreIds : \A a \in PaneActions(p) :
          paneReducer(explore[p], a).initialized
            = (explore[p].initialized \/ a.type = "explore/initializeExplore"))
  /\ [][ \A p \in ExploreIds :
           /\ (explore[p].initialized /\ ~ explore'[p].initialized)
                => last'.op = "unmount"
           /\ (~ explore[p].initialized /\ explore'[p].initialized)
                => /\ last'.op = "initializeExplore"
                   /\ last'.outcome = "fulfilled"
                   /\ last'.exploreId = p
       ]_vars

\* an initialized pane has been initialized again, without an instance, and
\* is still initialized
C12_Witness ==
  /\ InitializeFulfilled
  /\ last.initialized
  /\ last.instance = Undefined
  /\ explore[last.exploreId].initialized

----------------------------------------------------------------------------
(* Properties of urlDiff *)

\* urlState?.range
OptRange(urlState) == IF IsAbsent(urlState) THEN Undefined ELSE urlState.range

\* C13: urlDiff of a URL state with itself is false in all three components,
\* also when both arguments are absent; and its range component is false
\* when the range is absent on one side and is the default range on the other.
C13_UrlDiffReflexive ==
  last.op = "urlDiff" =>
    /\ last.oldUrlState = last.currentUrlState => last.update = NoUpdate
    /\ ( \/ OptRange(last.oldUrlState) = Undefined
            /\ OptRange(last.currentUrlState) = DEFAULT_RANGE
         \/ OptRange(last.currentUrlState) = Undefined
            /\ OptRange(last.oldUrlState) = DEFAULT_RANGE )
         => ~ last.update.range

\* no old URL state at all against a current one with the default range and
\* a data source: the data source differs, the range does not
C13_Witness ==
  /\ last.op = "urlDiff"
  /\ IsAbsent(last.oldUrlState)
  /\ ~ IsAbsent(last.currentUrlState)
  /\ last.currentUrlState.range = DEFAULT_RANGE
  /\ last.update.datasource
  /\ ~ last.update.range

----------------------------------------------------------------------------
(* Properties of the two panes side by side *)

\* C14: with both panes shown, an action whose payload names pane p changes
\* the state of pane p only: the dispatch that ran left the other pane as it
\* was, and so would every action of every kind paneReducer handles, from
\* every state the two panes reach.
C14_OtherPaneUntouched ==
  [][ /\ \A q \in ExploreIds \ {last'.exploreId} : explore'[q] = explore[q]
      /\ \A p \in ExploreIds : \A a \in PaneActions(p) :
           \A q \in ExploreIds \ {p} : exploreReducer(explore, a)[q] = explore[q]
    ]_vars

\* both panes initialized, the left one with an instance and a dedup strategy
\* of its own, and the action that ran last was an Initialize of the right
\* pane without an instance
C14_Witness ==
  /\ last.op = "explore/initializeExplore"
  /\ last.exploreId = "right"
  /\ explore["right"].initialized
  /\ explore["right"].datasourceInstance = Undefined
  /\ explore["left"].initialized
  /\ explore["left"].datasourceInstance = "A"
  /\ explore["left"].dedupStrategy = "exact"
  /\ explore["right"].dedupStrategy = "none"

----------------------------------------------------------------------------
(* Properties of the display filters *)

\* C15 as claimed: each display filter is changed by its own action only:
\* dedupStrategy by ChangeDedupStrategy, hiddenLogLevels by ToggleLogLevel,
\* logsHighlighterExpressions by HighlightLogsExpression; ChangeSize,
\* Initialize and the other two filter actions leave it as it was.
C15_FacetsOnlyByOwnAction ==
  [][ \A p \in ExploreIds :
        /\ explore'[p].dedupStrategy # explore[p].dedupStrategy
             => last'.op = "explore/changeDedupStrategyAction"
        /\ explore'[p].hiddenLogLevels # explore[p].hiddenLogLevels
             => last'.op = "explore/toggleLogLevel"
        /\ explore'[p].logsHighlighterExpressions # explore[p].logsHighlighterExpressions
             => last'.op = "explore/highlightLogsExpression"
    ]_vars

\* C15, amended: dedupStrategy is changed by ChangeDedupStrategy only and
\* hiddenLogLevels by ToggleLogLevel only; logsHighlighterExpressions is
\* changed by HighlightLogsExpression and by Initialize, which always leaves
\* it absent, and by no other pane action.
C15_FacetsByOwnActionOrInitialize ==
  [][ \A p \in ExploreIds :
        /\ explore'[p].dedupStrategy # explore[p].dedupStrategy
             => last'.op = "explore/changeDedupStrategyAction"
        /\ explore'[p].hiddenLogLevels # explore[p].hiddenLogLevels
             => last'.op = "explore/toggleLogLevel"
        /\ explore'[p].logsHighlighterExpressions # explore[p].logsHighlighterExpressions
             => \/ last'.op = "explore/highlightLogsExpression"
                \/ last'.op = "explore/initializeExplore"
        /\ (last'.op = "explore/initializeExplore" /\ last'.exploreId = p)
             => explore'[p].logsHighlighterExpressions = <<>>
    ]_vars

\* a pane with a dedup strategy and hidden log levels chosen has been
\* initialized again: both are kept, the highlight expressions are absent
C15_Witness ==
  /\ last.op = "explore/initializeExplore"
  /\ last.initialized
  /\ explore[last.exploreId].dedupStrategy = "exact"
  /\ explore[last.exploreId].hiddenLogLevels # <<>>
  /\ explore[last.exploreId].logsHighlighterExpressions = <<>>

----------------------------------------------------------------------------
(* Properties of originPanelId *)

\* C16 as claimed: once a pane is initialized, no refreshExplore call changes
\* its originPanelId, the calls that run the full initializeExplore again
\* because the URL's data source changed included.
C16_OriginPanelIdImmutable ==
  [][ \A p \in ExploreIds :
        ( /\ explore[p].initialized
          /\ explore'[p].initialized
          /\ last'.exploreId = p
          /\ (last'.op = "refreshExplore" \/ last'.caller = "refreshExplore") )
        => explore'[p].originPanelId = explore[p].originPanelId
    ]_vars

----------------------------------------------------------------------------
(* Properties of overlapping initializeExplore invocations *)

\* C17 as claimed: when initializeExplore invocations for one pane overlap,
\* a superseded one does not apply its data after the newer one: once an
\* invocation has completed and none is suspended for the pane any more, the
\* pane's datasourceInstance, queries and history are those of the
\* invocation that started last, whichever resolution finished first.
C17_LastStartedWins ==
  ( /\ InitializeFulfilled
    /\ \A i \in DOMAIN pending : pending[i].exploreId # last.exploreId )
  => LET newest == last.newest[1]
         loaded == loadResult(newest.datasourceName)
     IN  /\ explore[last.exploreId].datasourceInstance = loaded.instance
         /\ explore[last.exploreId].queries = newest.queries
         /\ explore[last.exploreId].history = loaded.history

----------------------------------------------------------------------------
(* Properties of unmounting *)

\* C18 as claimed: no action is applied against a destroyed pane: an
\* initializeExplore that was suspended when the Wrapper unmounted and reset
\* the panes dispatches, when it resumes after the unmount, neither
\* Initialize nor a time-update nor a query run.
C18_NoDispatchAfterUnmount ==
  (InitializeFulfilled /\ ~ mounted) =>
    /\ Count(last.initLog, "explore/initializeExplore") = 0
    /\ Count(last.initLog, "updateTime") = 0
    /\ Count(last.initLog, "runQueries") = 0
    /\ explore[last.exploreId] = makeExplorePaneState

----------------------------------------------------------------------------
(* Properties of the query list refreshExplore builds *)

\* the refIds a URL query list carries are pairwise distinct
PresentRefIdsDistinct(queries) ==
  \A i, j \in DOMAIN queries :
    (i # j /\ queries[i].refId # "") => queries[i].refId # queries[j].refId

\* C19 as claimed: the query list refreshExplore builds from the URL's
\* queries has pairwise distinct refIds, whatever the URL's list (taken here
\* with its own refIds pairwise distinct): refIds present are kept, missing
\* ones are assigned, and no two queries end up with the same refId, also
\* when a later query carries the refId an earlier one without refId gets.
C19_RefIdsPairwiseDistinct ==
  (last.op = "refreshQueries" /\ PresentRefIdsDistinct(last.queries)) =>
    \A i, j \in DOMAIN last.refreshQueries :
      i # j => last.refreshQueries[i].refId # last.refreshQueries[j].refId

====
